---- MODULE Spec2Model ----
(***************************************************************************)
(* Model of the rubrix client ingestion path (src/rubrix/client/api.py):   *)
(* Api.log / Api.log_async, the _RubrixLogAgent bridge to the background   *)
(* loop, and the module-level default client.                              *)
(*                                                                         *)
(* A caller thread submits a batch; run_coroutine_threadsafe creates a     *)
(* concurrent future and schedules the coroutine on the worker loop.  The  *)
(* coroutine runs atomically between two awaits (single-threaded loop);    *)
(* the only await of log_async is the per-chunk async_bulk call.           *)
(***************************************************************************)
EXTENDS Integers, Sequences, FiniteSets, TLC

\* ---------------------------------------------------------------- bounds
MaxLen == 3          \* longest record batch
MaxChunk == 2        \* largest chunk_size argument (smallest is -1)
MaxNameLen == 1      \* longest dataset name, in characters
MaxApis == 2         \* Api instances constructed in one process
MaxCallers == 2      \* caller threads of the concurrent specification
MaxCancels == 1      \* future.cancel() calls a background caller makes

\* ------------------------------------------------------------ input sets
TextClassificationRecord == "TextClassificationRecord"
TokenClassificationRecord == "TokenClassificationRecord"
Text2TextRecord == "Text2TextRecord"
OtherRecord == "OtherRecord"

\* typing.Union Record.__args__: the accepted record variants
RecordArgs == {TextClassificationRecord, TokenClassificationRecord, Text2TextRecord}

RecordTypes == RecordArgs \cup {OtherRecord}

SeqsUpTo(S, n) == UNION {[1..m -> S] : m \in 0..n}

\* the batches of at most n records with types in S; a record is its type
\* and its identity, which is its position in the batch the caller built
BatchesOf(S, n) ==
    UNION {{[j \in 1..m |-> [type |-> f[j], id |-> j]] : f \in [1..m -> S]} :
           m \in 0..n}

Batches == BatchesOf(RecordTypes, MaxLen)

ChunkSizes == (0 - 1)..MaxChunk

NameChars == {"a", "-", " ", "/"}

Names == SeqsUpTo(NameChars, MaxNameLen)

Callers == 1..MaxCallers

\* ----------------------------------------------------------------- state
VARIABLES
    apis,      \* Api instances built so far; apis[a].loop is the agent's __loop__
    active,    \* __ACTIVE_API__: index into apis, 0 is None
    loops,     \* scheduling loops (and threads) created by setup_loop_in_thread
    args,      \* per caller: the arguments of its current log call
    caller,    \* per caller: where the caller thread is, and what log gave it
    future,    \* per caller: the concurrent future run_coroutine_threadsafe returned
    task,      \* per caller: the coroutine __log_internal__/log_async on the loop
    bulk,      \* per caller: the async_bulk calls of the current batch
    errlog,    \* per caller: _LOGGER.error was called for the current call
    worker,    \* the loop's thread: "running", "stopped" (thread gone) or "closed"
    script,    \* what async_bulk answers to the k-th call, where it is fixed
    user,      \* Api._user: username and workspaces of the logged-in user
    headers,   \* Api._client.headers[RUBRIX_WORKSPACE_HEADER_NAME], or NoHeader
    lastws,    \* the last set_workspace call: argument, outcome, workspace before
    thread     \* per thread: where it is in active_api(), what it built and got

\* the state the log path does not touch
envvars == <<worker, script, user, headers, lastws, thread>>

vars == <<apis, active, loops, args, caller, future, task, bulk, errlog,
          worker, script, user, headers, lastws, thread>>

NoHeader == "<no header>"

NoUser == [username |-> "", has_workspaces |-> FALSE, workspaces |-> {}]

NoCall == [workspace |-> NoHeader, raised |-> FALSE, before |-> NoHeader]

NoArgs == [records |-> <<>>, name |-> <<>>, chunk_size |-> 1, background |-> FALSE]

\* a thread outside active_api(): made is the Api its `Api()` built (0: none
\* so far), got the Api its last call returned
IdleThread == [pc |-> "idle", made |-> 0, got |-> 0]

IdleCaller == [pc |-> "idle", processed |-> 0, failed |-> 0, error |-> "", cancels |-> 0]

NoFuture == [state |-> "none", processed |-> 0, failed |-> 0, error |-> "",
             by |-> "", sets |-> 0]

EmptyDetail == [message |-> "", name |-> <<>>, type |-> "", accepted |-> {}]

NoTask == [pc |-> "none", k |-> 0, processed |-> 0, failed |-> 0,
           outcome |-> "", error |-> "", detail |-> EmptyDetail, cancel |-> FALSE,
           api |-> 0, direct |-> FALSE]

NoBulk == [sent |-> <<>>, applied |-> {}, inflight |-> {}, raisedAt |-> 0,
           responses |-> <<>>]

\* the state of the log path before any call
NoCalls ==
    /\ args = [c \in Callers |-> NoArgs]
    /\ caller = [c \in Callers |-> IdleCaller]
    /\ future = [c \in Callers |-> NoFuture]
    /\ task = [c \in Callers |-> NoTask]
    /\ bulk = [c \in Callers |-> NoBulk]
    /\ errlog = [c \in Callers |-> FALSE]

\* the rest of the state where it plays no part
NoEnv ==
    /\ worker = "running"
    /\ script = <<>>
    /\ user = NoUser
    /\ headers = NoHeader
    /\ lastws = NoCall
    /\ thread = [t \in Callers |-> IdleThread]

Init ==
    /\ apis = <<>>
    /\ active = 0
    /\ loops = 0
    /\ NoCalls
    /\ NoEnv

\* ------------------------------------------------------- pure operators
Min(a, b) == IF a < b THEN a ELSE b

\* Python range(start, stop, step) for step > 0, as the sequence it yields
RECURSIVE RangeUp(_, _, _)
RangeUp(start, stop, step) ==
    IF start >= stop THEN <<>>
    ELSE <<start>> \o RangeUp(start + step, stop, step)

\* variant: the loop stops one record early, range(0, len(records) - 1, step)
RangeShort(stop, step) == IF step < 0 THEN <<>> ELSE RangeUp(0, stop - 1, step)

\* range(0, len(records), chunk_size): a negative step from 0 yields nothing
\* (step 0 raises ValueError, see StepIsZero)
Range(stop, step) == IF step < 0 THEN <<>> ELSE RangeUp(0, stop, step)

StepIsZero(step) == step = 0

\* variant: the slice takes one record too many, records[i : i + chunk_size + 1]
SliceInclusive(records, i, chunk_size) ==
    SubSeq(records, i + 1, Min(i + chunk_size + 1, Len(records)))

\* records[i : i + chunk_size] for chunk_size > 0 (i is 0-based)
Slice(records, i, chunk_size) ==
    SubSeq(records, i + 1, Min(i + chunk_size, Len(records)))

\* re.match(DATASET_NAME_REGEX_PATTERN, name): alphanumerics, dash, underscore
MatchesPattern(name) ==
    /\ Len(name) > 0
    /\ \A j \in 1..Len(name) : name[j] \in {"a", "-"}

\* creation_class.from_client(r) for the creation class picked from the
\* first record: a record of that variant converts; what a record of another
\* variant does is not fixed by the uploader (it may convert or raise)
from_client(record_type, r) ==
    IF r.type = record_type THEN {"built"} ELSE {"built", "raised"}

\* variant: the empty record list is not rejected
InputErrorNoEmpty(a) ==
    IF Len(a.name) = 0 THEN "InputValueError"
    ELSE IF ~MatchesPattern(a.name) THEN "InputValueError"
    ELSE IF Len(a.records) = 0 THEN ""
    ELSE IF a.records[1].type \notin RecordArgs THEN "InputValueError"
    ELSE ""

\* variant: only the empty name is rejected, the pattern is not matched
InputErrorNoPattern(a) ==
    IF Len(a.name) = 0 THEN "InputValueError"
    ELSE IF Len(a.records) = 0 THEN "InputValueError"
    ELSE IF a.records[1].type \notin RecordArgs THEN "InputValueError"
    ELSE ""

\* variant: a first record of an unknown type is not rejected
InputErrorAnyType(a) ==
    IF Len(a.name) = 0 THEN "InputValueError"
    ELSE IF ~MatchesPattern(a.name) THEN "InputValueError"
    ELSE IF Len(a.records) = 0 THEN "InputValueError"
    ELSE ""

\* the checks of log_async that run before the chunk loop; "" is no error
InputError(a) ==
    IF Len(a.name) = 0 THEN "InputValueError"
    ELSE IF ~MatchesPattern(a.name) THEN "InputValueError"
    ELSE IF Len(a.records) = 0 THEN "InputValueError"
    ELSE IF a.records[1].type \notin RecordArgs THEN "InputValueError"
    ELSE ""

\* the message of the InputValueError raised by those checks: what it says
\* and the values it is formatted with
InputErrorMessage(a) ==
    IF Len(a.name) = 0
    THEN [EmptyDetail EXCEPT !.message = "Empty dataset name has been passed as argument."]
    ELSE IF ~MatchesPattern(a.name)
    THEN [EmptyDetail EXCEPT !.message = "Provided dataset name does not match the pattern",
                          !.name = a.name]
    ELSE IF Len(a.records) = 0
    THEN [EmptyDetail EXCEPT !.message = "Empty record list has been passed as argument."]
    ELSE IF a.records[1].type \notin RecordArgs
    THEN [EmptyDetail EXCEPT !.message = "Unknown record type",
                          !.type = a.records[1].type,
                          !.accepted = RecordArgs]
    ELSE EmptyDetail

\* ------------------------------------------------ background loop, agent
\* variant: every call starts a loop and a thread of its own
setup_new_loop(n) == n + 1

\* setup_loop_in_thread(): the process-wide loop is created on first need
\* and reused afterwards; the result is the number of loops after the call
setup_loop_in_thread(n) == IF n = 0 THEN 1 ELSE n

\* _RubrixLogAgent.__init__ inside Api.__init__: the agent takes its loop
\* from setup_loop_in_thread
NewApi(n) == [loop |-> setup_loop_in_thread(n)]

\* variant: the finished task's outcome is never copied into the future
SetFutureStateNever(fut, outcome) == fut

\* variant: the task's outcome overwrites a future that is already done
SetFutureStateAlways(fut, outcome) == [outcome EXCEPT !.sets = fut.sets + 1]

\* asyncio's _set_concurrent_future_state: the worker copies the finished
\* task's outcome into the concurrent future unless the future is cancelled
SetFutureState(fut, outcome) ==
    IF fut.state = "pending" THEN [outcome EXCEPT !.sets = fut.sets + 1] ELSE fut

Result(p, f) ==
    [state |-> "result", processed |-> p, failed |-> f, error |-> "",
     by |-> "worker", sets |-> 0]

\* variant: the future reports a task's exception wrapped in another error
FailureWrapped(err) ==
    [state |-> "exception", processed |-> 0, failed |-> 0,
     error |-> "ExecutionError", by |-> "worker", sets |-> 0]

Failure(err) ==
    [state |-> "exception", processed |-> 0, failed |-> 0, error |-> err,
     by |-> "worker", sets |-> 0]

Cancelled ==
    [state |-> "cancelled", processed |-> 0, failed |-> 0, error |-> "",
     by |-> "caller", sets |-> 0]

\* the async_bulk record b once chunk k has been handed to async_bulk
Issued(b, k, chunk) ==
    [b EXCEPT !.sent = Append(@, chunk), !.inflight = @ \cup {k}]

\* variant: the loop goes on without waiting for call k to be over
AwaitedNot(b, k, applied) ==
    [b EXCEPT !.applied = IF applied THEN @ \cup {k} ELSE @]

\* the async_bulk record b once the awaited call k is over, applied by the
\* server or not
Awaited(b, k, applied) ==
    [b EXCEPT !.inflight = @ \ {k},
              !.applied = IF applied THEN @ \cup {k} ELSE @]

\* ---------------------------------------------------------------- actions
\* init(): build an Api and make it __ACTIVE_API__
init ==
    /\ Len(apis) < MaxApis
    /\ apis' = Append(apis, NewApi(loops))
    /\ loops' = setup_loop_in_thread(loops)
    /\ active' = Len(apis) + 1
    /\ UNCHANGED <<args, caller, future, task, bulk, errlog>>
    /\ UNCHANGED envvars

\* Api(...): build a client without touching __ACTIVE_API__
ApiNew ==
    /\ Len(apis) < MaxApis
    /\ apis' = Append(apis, NewApi(loops))
    /\ loops' = setup_loop_in_thread(loops)
    /\ UNCHANGED <<active, args, caller, future, task, bulk, errlog>>
    /\ UNCHANGED envvars

\* active_api(): create the default client when there is none
active_api ==
    /\ active = 0
    /\ Len(apis) < MaxApis
    /\ apis' = Append(apis, NewApi(loops))
    /\ loops' = setup_loop_in_thread(loops)
    /\ active' = Len(apis) + 1
    /\ UNCHANGED <<args, caller, future, task, bulk, errlog>>
    /\ UNCHANGED envvars

\* the caller thread drops the response or the future of its finished call
\* and is free to start another one
forget(c) ==
    /\ \/ /\ caller[c].pc \in {"returned", "raised", "holding",
                               "async_returned", "async_raised"}
          /\ task[c].pc = "finished"
       \/ caller[c].pc = "failed"
    /\ args' = [args EXCEPT ![c] = NoArgs]
    /\ caller' = [caller EXCEPT ![c] = IdleCaller]
    /\ future' = [future EXCEPT ![c] = NoFuture]
    /\ task' = [task EXCEPT ![c] = NoTask]
    /\ bulk' = [bulk EXCEPT ![c] = NoBulk]
    /\ errlog' = [errlog EXCEPT ![c] = FALSE]
    /\ UNCHANGED <<apis, active, loops>>
    /\ UNCHANGED envvars

\* variant: log waits for the result whatever background is
AfterSubmitWait(background) == "waiting"

\* Api.log after the submission: `if background: return future`, else the
\* caller goes on to future.result()
AfterSubmit(background) == IF background THEN "holding" ELSE "waiting"

\* Api.log on client a: _RubrixLogAgent.log submits the coroutine with
\* run_coroutine_threadsafe; with background the future is returned at once,
\* otherwise the caller blocks in future.result()
\* (call_soon_threadsafe on a closed loop raises RuntimeError out of log; on
\* a loop whose thread is gone it just queues the callback)
log(c, a, records, name, chunk_size, background) ==
    /\ caller[c].pc = "idle"
    /\ a \in 1..Len(apis)
    /\ args' = [args EXCEPT ![c] = [records |-> records, name |-> name,
                                    chunk_size |-> chunk_size,
                                    background |-> background]]
    /\ bulk' = [bulk EXCEPT ![c] = NoBulk]
    /\ errlog' = [errlog EXCEPT ![c] = FALSE]
    /\ IF worker = "closed"
       THEN /\ caller' = [caller EXCEPT ![c] =
                            [IdleCaller EXCEPT !.pc = "failed",
                                               !.error = "RuntimeError"]]
            /\ future' = [future EXCEPT ![c] = NoFuture]
            /\ task' = [task EXCEPT ![c] = NoTask]
       ELSE /\ future' = [future EXCEPT ![c] = [NoFuture EXCEPT !.state = "pending"]]
            /\ task' = [task EXCEPT ![c] = [NoTask EXCEPT !.pc = "scheduled",
                                                          !.api = a]]
            /\ caller' = [caller EXCEPT ![c] =
                            [IdleCaller EXCEPT !.pc = AfterSubmit(background)]]
    /\ UNCHANGED <<apis, active, loops>>
    /\ UNCHANGED envvars

\* the loop that runs the coroutine of caller c is running: the agent's
\* loop needs its thread, a caller awaiting log_async itself runs it
LoopRuns(c) == task[c].direct \/ worker = "running"

\* log_async returns BulkResponse(dataset, processed, failed)
Return(c, p, f) ==
    /\ task' = [task EXCEPT ![c].pc = "finished", ![c].outcome = "returned",
                            ![c].processed = p, ![c].failed = f]
    /\ future' = [future EXCEPT ![c] = SetFutureState(future[c], Result(p, f))]
    /\ UNCHANGED errlog

\* the message carried by the exception err of the call of caller c
ErrorDetail(c, err) ==
    IF err = "InputValueError" THEN InputErrorMessage(args[c]) ELSE EmptyDetail

\* variant: the exception is re-raised without a log record
RaiseUnlogged(c, err) ==
    /\ task' = [task EXCEPT ![c].pc = "finished", ![c].outcome = "raised",
                            ![c].error = err, ![c].detail = ErrorDetail(c, err)]
    /\ future' = [future EXCEPT ![c] = SetFutureState(future[c], Failure(err))]
    /\ UNCHANGED errlog

\* variant: the exception is logged and swallowed, and the totals reached
\* so far are returned as the BulkResponse
RaiseSwallowed(c, err) ==
    /\ errlog' = [errlog EXCEPT ![c] = TRUE]
    /\ task' = [task EXCEPT ![c].pc = "finished", ![c].outcome = "returned"]
    /\ future' = [future EXCEPT ![c] =
                    SetFutureState(future[c],
                                   Result(task[c].processed, task[c].failed))]

\* log_async raises err.  Under __log_internal__ (a call submitted by the
\* agent) the exception is logged and re-raised, and the finished task's
\* exception is then copied into the future; a coroutine the caller awaits
\* itself has neither the wrapper nor a future
Raise(c, err) ==
    /\ errlog' = [errlog EXCEPT ![c] = ~task[c].direct]
    /\ task' = [task EXCEPT ![c].pc = "finished", ![c].outcome = "raised",
                            ![c].error = err, ![c].detail = ErrorDetail(c, err)]
    /\ future' = [future EXCEPT ![c] = SetFutureState(future[c], Failure(err))]

\* one pass of `for i in range(0, len(records), chunk_size)` at the k-th
\* offset with totals p, f, where b is the caller's async_bulk record so
\* far: either the loop is over and log_async returns, or the chunk is
\* converted and async_bulk is awaited
Iterate(c, k, p, f, b) ==
    LET a == args[c]
        offsets == Range(Len(a.records), a.chunk_size)
    IN  IF k > Len(offsets)
        THEN Return(c, p, f) /\ bulk' = [bulk EXCEPT ![c] = b]
        ELSE LET chunk == Slice(a.records, offsets[k], a.chunk_size)
             IN  \E built \in [1..Len(chunk) -> {"built", "raised"}] :
                    /\ \A j \in 1..Len(chunk) :
                          built[j] \in from_client(a.records[1].type, chunk[j])
                    /\ IF \E j \in 1..Len(chunk) : built[j] = "raised"
                       THEN Raise(c, "ConversionError")
                            /\ bulk' = [bulk EXCEPT ![c] = b]
                       ELSE /\ task' = [task EXCEPT ![c].pc = "awaiting",
                                                    ![c].k = k,
                                                    ![c].processed = p,
                                                    ![c].failed = f]
                            /\ bulk' = [bulk EXCEPT ![c] = Issued(b, k, chunk)]
                            /\ UNCHANGED <<future, errlog>>

\* the loop runs the scheduled coroutine up to its first await
log_async_start(c) ==
    /\ task[c].pc = "scheduled"
    /\ LoopRuns(c)
    /\ IF InputError(args[c]) # ""
       THEN Raise(c, InputError(args[c])) /\ UNCHANGED bulk
       ELSE IF StepIsZero(args[c].chunk_size)
       THEN Raise(c, "ValueError") /\ UNCHANGED bulk
       ELSE Iterate(c, 1, 0, 0, bulk[c])
    /\ UNCHANGED <<apis, active, loops, args, caller>>
    /\ UNCHANGED envvars

\* variant: processed and failed are accumulators shared by the calls on the
\* loop, so a batch's totals take in what another batch has counted
async_bulk_returns_shared(c, nfailed) ==
    /\ task[c].pc = "awaiting"
    /\ LoopRuns(c)
    /\ LET k == task[c].k
           n == Len(bulk[c].sent[k])
           d == CHOOSE d \in Callers : d # c
       IN  /\ nfailed \in 0..n
           /\ Iterate(c, k + 1,
                      task[c].processed + task[d].processed + (n - nfailed),
                      task[c].failed + task[d].failed + nfailed,
                      [Awaited(bulk[c], k, TRUE) EXCEPT
                          !.responses = Append(@, [processed |-> n - nfailed,
                                                   failed |-> nfailed])])
    /\ UNCHANGED <<apis, active, loops, args, caller>>
    /\ UNCHANGED envvars

\* async_bulk answers: the chunk is applied; the response reports nfailed of
\* its records as failed and the others as processed; the totals are added
\* and the loop goes on
async_bulk_returns(c, nfailed) ==
    /\ task[c].pc = "awaiting"
    /\ LoopRuns(c)
    /\ LET k == task[c].k
           n == Len(bulk[c].sent[k])
       IN  /\ nfailed \in 0..n
           /\ Iterate(c, k + 1, task[c].processed + (n - nfailed),
                      task[c].failed + nfailed,
                      [Awaited(bulk[c], k, TRUE) EXCEPT
                          !.responses = Append(@, [processed |-> n - nfailed,
                                                   failed |-> nfailed])])
    /\ UNCHANGED <<apis, active, loops, args, caller>>
    /\ UNCHANGED envvars

\* async_bulk raises a transport error (the server may or may not have
\* applied the chunk); nothing in log_async catches it
async_bulk_raises(c, applied) ==
    /\ task[c].pc = "awaiting"
    /\ LoopRuns(c)
    /\ LET k == task[c].k
       IN  bulk' = [bulk EXCEPT ![c] = [Awaited(bulk[c], k, applied)
                                           EXCEPT !.raisedAt = k]]
    /\ Raise(c, "TransportError")
    /\ UNCHANGED <<apis, active, loops, args, caller>>
    /\ UNCHANGED envvars

\* variant: future.cancel() cancels the future and its task whatever the
\* future's state
FutureCancelAlways(c) ==
    /\ future' = [future EXCEPT ![c] = Cancelled]
    /\ task' = [task EXCEPT ![c].cancel = TRUE]

\* future.cancel() of the concurrent future: a pending future becomes
\* cancelled and the cancellation of the task is handed to the loop; a
\* finished future is left as it is
FutureCancel(c) ==
    IF future[c].state = "pending"
    THEN /\ future' = [future EXCEPT ![c] = Cancelled]
         /\ task' = [task EXCEPT ![c].cancel = TRUE]
    ELSE UNCHANGED <<future, task>>

\* variant: cancelling undoes the chunks uploaded so far
cancel_delivered_rollback(c, applied) ==
    /\ task[c].pc = "awaiting"
    /\ task[c].cancel
    /\ LoopRuns(c)
    /\ task' = [task EXCEPT ![c].pc = "finished", ![c].outcome = "cancelled"]
    /\ bulk' = [bulk EXCEPT ![c] = [Awaited(bulk[c], task[c].k, FALSE)
                                      EXCEPT !.applied = {}]]
    /\ UNCHANGED <<apis, active, loops, args, caller, future, errlog>>
    /\ UNCHANGED envvars

\* the loop delivers task.cancel(): the coroutine gets CancelledError at its
\* await (not an Exception, so __log_internal__ does not log it) and the
\* call in flight is abandoned, applied by the server or not
cancel_delivered(c, applied) ==
    /\ task[c].pc = "awaiting"
    /\ task[c].cancel
    /\ LoopRuns(c)
    /\ task' = [task EXCEPT ![c].pc = "finished", ![c].outcome = "cancelled"]
    /\ bulk' = [bulk EXCEPT ![c] = Awaited(bulk[c], task[c].k, applied)]
    /\ UNCHANGED <<apis, active, loops, args, caller, future, errlog>>
    /\ UNCHANGED envvars

\* variant: future.cancel() is called after a result only (no `finally`)
log_result_no_finally(c) ==
    /\ caller[c].pc = "waiting"
    /\ future[c].state \in {"result", "exception", "cancelled"}
    /\ caller' = [caller EXCEPT ![c] =
                    [pc |-> IF future[c].state = "result" THEN "returned" ELSE "raised",
                     processed |-> future[c].processed,
                     failed |-> future[c].failed,
                     error |-> IF future[c].state = "cancelled" THEN "CancelledError"
                               ELSE future[c].error,
                     cancels |-> IF future[c].state = "result"
                                 THEN caller[c].cancels + 1 ELSE caller[c].cancels]]
    /\ UNCHANGED <<future, task>>
    /\ UNCHANGED <<apis, active, loops, args, bulk, errlog>>
    /\ UNCHANGED envvars

\* Api.log, background=False: future.result() returns the BulkResponse or
\* raises the future's exception; `finally` then calls future.cancel()
log_result(c) ==
    /\ caller[c].pc = "waiting"
    /\ future[c].state \in {"result", "exception", "cancelled"}
    /\ caller' = [caller EXCEPT ![c] =
                    [pc |-> IF future[c].state = "result" THEN "returned" ELSE "raised",
                     processed |-> future[c].processed,
                     failed |-> future[c].failed,
                     error |-> IF future[c].state = "cancelled" THEN "CancelledError"
                               ELSE future[c].error,
                     cancels |-> caller[c].cancels + 1]]
    /\ FutureCancel(c)
    /\ UNCHANGED <<apis, active, loops, args, bulk, errlog>>
    /\ UNCHANGED envvars

\* Api.log, background=False: the wait in future.result() is interrupted
\* (KeyboardInterrupt in the caller thread); `finally` calls future.cancel()
log_interrupted(c) ==
    /\ caller[c].pc = "waiting"
    /\ caller' = [caller EXCEPT ![c].pc = "raised",
                                ![c].error = "KeyboardInterrupt",
                                ![c].cancels = @ + 1]
    /\ FutureCancel(c)
    /\ UNCHANGED <<apis, active, loops, args, bulk, errlog>>
    /\ UNCHANGED envvars

\* the holder of a background future calls future.cancel(); it returns
\* True or False and never raises
cancel(c) ==
    /\ caller[c].pc = "holding"
    /\ caller[c].cancels < MaxCancels
    /\ caller' = [caller EXCEPT ![c].cancels = @ + 1]
    /\ FutureCancel(c)
    /\ UNCHANGED <<apis, active, loops, args, bulk, errlog>>
    /\ UNCHANGED envvars

\* the caller awaits Api.log_async itself, on its own loop: the coroutine
\* is the same, without agent, wrapper or future
log_async(c, a, records, name, chunk_size) ==
    /\ caller[c].pc = "idle"
    /\ a \in 1..Len(apis)
    /\ args' = [args EXCEPT ![c] = [records |-> records, name |-> name,
                                    chunk_size |-> chunk_size,
                                    background |-> FALSE]]
    /\ future' = [future EXCEPT ![c] = NoFuture]
    /\ task' = [task EXCEPT ![c] = [NoTask EXCEPT !.pc = "scheduled", !.api = a,
                                                  !.direct = TRUE]]
    /\ bulk' = [bulk EXCEPT ![c] = NoBulk]
    /\ errlog' = [errlog EXCEPT ![c] = FALSE]
    /\ caller' = [caller EXCEPT ![c] = [IdleCaller EXCEPT !.pc = "awaiting"]]
    /\ UNCHANGED <<apis, active, loops>>
    /\ UNCHANGED envvars

\* `await api.log_async(...)` is over: the caller has the BulkResponse or
\* the exception of the coroutine
log_async_done(c) ==
    /\ caller[c].pc = "awaiting"
    /\ task[c].direct
    /\ task[c].pc = "finished"
    /\ caller' = [caller EXCEPT ![c] =
                    [pc |-> IF task[c].outcome = "returned" THEN "async_returned"
                            ELSE "async_raised",
                     processed |-> IF task[c].outcome = "returned"
                                   THEN task[c].processed ELSE 0,
                     failed |-> IF task[c].outcome = "returned"
                                THEN task[c].failed ELSE 0,
                     error |-> task[c].error,
                     cancels |-> 0]]
    /\ UNCHANGED <<apis, active, loops, args, future, task, bulk, errlog>>
    /\ UNCHANGED envvars

\* the thread of the agent's loop ends: the loop stops running, and is
\* closed or not
worker_dies(how) ==
    /\ worker = "running"
    /\ how \in {"stopped", "closed"}
    /\ worker' = how
    /\ UNCHANGED <<apis, active, loops, args, caller, future, task, bulk, errlog,
                   script, user, headers, lastws, thread>>

\* ------------------------------------------------------------- workspaces
WorkspaceNames == {"u", "w1", "w2"}

\* set_workspace(None)
NoWorkspace == "<None>"

\* the users whoami can return: workspaces is None (has_workspaces FALSE) or
\* a list of workspace names
Users ==
    {u \in [username : {"u", "w1"}, has_workspaces : BOOLEAN,
            workspaces : SUBSET WorkspaceNames] :
        ~u.has_workspaces => u.workspaces = {}}

\* Api.get_workspace: headers.get(RUBRIX_WORKSPACE_HEADER_NAME, username)
get_workspace(u, h) == IF h = NoHeader THEN u.username ELSE h

\* variant: the header is written before the workspace is checked
SetWorkspaceEarly(u, h, w) ==
    IF w = NoWorkspace THEN [raised |-> TRUE, headers |-> h]
    ELSE IF w = get_workspace(u, h) THEN [raised |-> FALSE, headers |-> h]
    ELSE IF w # u.username /\ u.has_workspaces /\ w \notin u.workspaces
    THEN [raised |-> TRUE, headers |-> w]
    ELSE [raised |-> FALSE, headers |-> w]

\* Api.set_workspace(w): whether it raises, and the header it leaves.  For
\* the username the header is popped and then written again like for any
\* other accepted workspace
SetWorkspace(u, h, w) ==
    IF w = NoWorkspace THEN [raised |-> TRUE, headers |-> h]
    ELSE IF w = get_workspace(u, h) THEN [raised |-> FALSE, headers |-> h]
    ELSE IF w = u.username
    THEN LET popped == NoHeader
         IN  [raised |-> FALSE, headers |-> w]
    ELSE IF u.has_workspaces /\ w \notin u.workspaces
    THEN [raised |-> TRUE, headers |-> h]
    ELSE [raised |-> FALSE, headers |-> w]

\* a call of set_workspace(w) on the client
set_workspace(w) ==
    /\ headers' = SetWorkspace(user, headers, w).headers
    /\ lastws' = [workspace |-> w,
                  raised |-> SetWorkspace(user, headers, w).raised,
                  before |-> get_workspace(user, headers)]
    /\ UNCHANGED <<apis, active, loops, args, caller, future, task, bulk, errlog,
                   worker, script, user, thread>>

\* a client built for any user, with no workspace given
InitWorkspace ==
    /\ apis = <<NewApi(0)>>
    /\ active = 1
    /\ loops = setup_loop_in_thread(0)
    /\ NoCalls
    /\ worker = "running"
    /\ script = <<>>
    /\ user \in Users
    /\ headers = NoHeader
    /\ lastws = NoCall
    /\ thread = [t \in Callers |-> IdleThread]

NextWorkspace == \E w \in WorkspaceNames \cup {"x", NoWorkspace} : set_workspace(w)

SpecWorkspace == InitWorkspace /\ [][NextWorkspace]_vars

\* ---------------------------------------------------------- specifications
\* the steps of the worker loop and of the caller for the call of caller c
Step(c) ==
    \/ log_async_start(c)
    \/ /\ task[c].pc = "awaiting"
       /\ \E nfailed \in 0..Len(bulk[c].sent[task[c].k]) :
             async_bulk_returns(c, nfailed)
    \/ \E applied \in BOOLEAN : async_bulk_raises(c, applied)
    \/ \E applied \in BOOLEAN : cancel_delivered(c, applied)
    \/ log_result(c)
    \/ log_interrupted(c)
    \/ cancel(c)
    \/ forget(c)

\* an idle caller thread calls log on one of the clients, with arguments
\* drawn from the given sets
Submit(c, batches, names, sizes) ==
    /\ caller[c].pc = "idle"
    /\ \E a \in 1..Len(apis), records \in batches, name \in names,
          chunk_size \in sizes, background \in BOOLEAN :
            log(c, a, records, name, chunk_size, background)

\* one caller thread, every input
Next ==
    \/ init
    \/ ApiNew
    \/ active_api
    \/ Submit(1, Batches, Names, ChunkSizes)
    \/ Step(1)

Spec == Init /\ [][Next]_vars

\* several caller threads at once on the shared loop, small valid batches
MaxLenConcurrent == 2

SmallBatches == BatchesOf({TextClassificationRecord}, MaxLenConcurrent)

\* the process has built its default client before the threads start
InitConcurrent ==
    /\ apis = <<NewApi(0)>>
    /\ active = 1
    /\ loops = setup_loop_in_thread(0)
    /\ NoCalls
    /\ NoEnv

NextConcurrent ==
    \/ \E c \in Callers : Submit(c, SmallBatches, {<<"a">>}, {1})
    \/ \E c \in Callers : Step(c)

SpecConcurrent == InitConcurrent /\ [][NextConcurrent]_vars

\* one caller thread and the thread of the loop, which may end at any time
NextWorker ==
    \/ Submit(1, SmallBatches, {<<"a">>}, {1})
    \/ Step(1)
    \/ \E how \in {"stopped", "closed"} : worker_dies(how)

SpecWorker == InitConcurrent /\ [][NextWorker]_vars

\* one caller thread, longer valid batches of one type, positive chunk sizes
MaxLenChunks == 5

LongBatches == BatchesOf({TextClassificationRecord}, MaxLenChunks)

NextChunks ==
    \/ Submit(1, LongBatches, {<<"a">>}, 1..MaxChunk)
    \/ Step(1)

SpecChunks == InitConcurrent /\ [][NextChunks]_vars

\* what async_bulk does with a call: it raises a transport error, or answers
\* with every record processed or with one record failed
ScriptOutcomes == {"raise", "processed", "one_failed"}

\* one outcome for each call a batch can make
Scripts == [1..MaxLen -> ScriptOutcomes]

\* async_bulk does with the call in flight of caller c what the script
\* says for a call at that place in the sequence
async_bulk_scripted(c) ==
    /\ task[c].pc = "awaiting"
    /\ IF script[task[c].k] = "raise"
       THEN \E applied \in BOOLEAN : async_bulk_raises(c, applied)
       ELSE async_bulk_returns(c, IF script[task[c].k] = "one_failed" THEN 1 ELSE 0)

\* batches whose conversion is settled by their records: of one accepted
\* type, or starting with a record of no accepted type
EquivBatches ==
    BatchesOf({TextClassificationRecord}, MaxLen)
        \cup BatchesOf({TokenClassificationRecord}, MaxLen)
        \cup BatchesOf({OtherRecord}, 1)

InitEquiv ==
    /\ apis = <<NewApi(0)>>
    /\ active = 1
    /\ loops = setup_loop_in_thread(0)
    /\ NoCalls
    /\ worker = "running"
    /\ script \in Scripts
    /\ user = NoUser
    /\ headers = NoHeader
    /\ lastws = NoCall
    /\ thread = [t \in Callers |-> IdleThread]

\* thread 1 calls the blocking log; thread 2 awaits log_async itself with
\* the same arguments; async_bulk treats both by the same script
NextEquiv ==
    \/ /\ caller[1].pc = "idle"
       /\ \E records \in EquivBatches, name \in Names, chunk_size \in ChunkSizes :
             log(1, 1, records, name, chunk_size, FALSE)
    \/ /\ caller[1].pc # "idle"
       /\ log_async(2, 1, args[1].records, args[1].name, args[1].chunk_size)
    \/ \E c \in {1, 2} : log_async_start(c)
    \/ \E c \in {1, 2} : async_bulk_scripted(c)
    \/ log_result(1)
    \/ log_async_done(2)

SpecEquiv == InitEquiv /\ [][NextEquiv]_vars

\* the call in flight of caller c comes to an end, with a response or with
\* a transport error
async_bulk_completes(c) ==
    \/ /\ task[c].pc = "awaiting"
       /\ \E nfailed \in 0..Len(bulk[c].sent[task[c].k]) :
             async_bulk_returns(c, nfailed)
    \/ \E applied \in BOOLEAN : async_bulk_raises(c, applied)

\* the thread of the loop keeps running and runs every callback that is
\* ready, every async_bulk call comes to an end, and a caller blocked in
\* future.result() wakes up once the future is done
Fairness ==
    \A c \in Callers :
        /\ WF_vars(log_async_start(c))
        /\ WF_vars(async_bulk_completes(c))
        /\ WF_vars(\E applied \in BOOLEAN : cancel_delivered(c, applied))
        /\ WF_vars(log_result(c))

\* several caller threads, small batches, every chunk size; the worker
\* thread never ends
NextLive ==
    \/ \E c \in Callers : Submit(c, SmallBatches, {<<"a">>}, ChunkSizes)
    \/ \E c \in Callers : Step(c)

SpecLive == InitConcurrent /\ [][NextLive]_vars /\ Fairness

\* ------------------------------------------------- the default client
\* active_api() taken statement by statement, as the threads of a process
\* run it: `if __ACTIVE_API__ is None` reads the global
active_api_test(t) ==
    /\ thread[t].pc = "idle"
    /\ thread' = [thread EXCEPT ![t].pc = IF active = 0 THEN "constructing"
                                          ELSE "returning"]
    /\ UNCHANGED <<apis, active, loops, args, caller, future, task, bulk, errlog,
                   worker, script, user, headers, lastws>>

\* `Api()`: the client is built (Api.__init__ logs in over the network)
active_api_construct(t) ==
    /\ thread[t].pc = "constructing"
    /\ Len(apis) < MaxApis
    /\ apis' = Append(apis, NewApi(loops))
    /\ loops' = setup_loop_in_thread(loops)
    /\ thread' = [thread EXCEPT ![t].pc = "storing", ![t].made = Len(apis) + 1]
    /\ UNCHANGED <<active, args, caller, future, task, bulk, errlog,
                   worker, script, user, headers, lastws>>

\* `__ACTIVE_API__ = ...`: the client just built is stored in the global
active_api_store(t) ==
    /\ thread[t].pc = "storing"
    /\ active' = thread[t].made
    /\ thread' = [thread EXCEPT ![t].pc = "returning"]
    /\ UNCHANGED <<apis, loops, args, caller, future, task, bulk, errlog,
                   worker, script, user, headers, lastws>>

\* `return __ACTIVE_API__`: the global is read again and returned
active_api_return(t) ==
    /\ thread[t].pc = "returning"
    /\ thread' = [thread EXCEPT ![t].pc = "done", ![t].got = active]
    /\ UNCHANGED <<apis, active, loops, args, caller, future, task, bulk, errlog,
                   worker, script, user, headers, lastws>>

\* the thread is free to call active_api() again
active_api_again(t) ==
    /\ thread[t].pc = "done"
    /\ thread' = [thread EXCEPT ![t].pc = "idle"]
    /\ UNCHANGED <<apis, active, loops, args, caller, future, task, bulk, errlog,
                   worker, script, user, headers, lastws>>

\* the threads of a process call active_api(); init() may be called too
NextSingleton ==
    \/ \E t \in Callers : active_api_test(t)
    \/ \E t \in Callers : active_api_construct(t)
    \/ \E t \in Callers : active_api_store(t)
    \/ \E t \in Callers : active_api_return(t)
    \/ \E t \in Callers : active_api_again(t)
    \/ init

SpecSingleton == Init /\ [][NextSingleton]_vars

\* ------------------------------------------------------------- properties
Homogeneous(records) ==
    \A j \in 1..Len(records) : records[j].type = records[1].type

CeilDiv(n, d) == (n + d - 1) \div d

\* C1: when log_async returns a BulkResponse for a non-empty homogeneous
\* batch of N records and a chunk size C >= 1, it has made exactly ceil(N/C)
\* async_bulk calls and processed + failed = N (every call reporting
\* processed + failed = the size of its chunk)
C1_CallsAndTotals ==
    \A c \in Callers :
        (/\ task[c].outcome = "returned"
         /\ Len(args[c].records) > 0
         /\ Homogeneous(args[c].records)
         /\ args[c].chunk_size >= 1)
        => /\ Len(bulk[c].sent) = CeilDiv(Len(args[c].records), args[c].chunk_size)
           /\ task[c].processed + task[c].failed = Len(args[c].records)
           /\ future[c].state = "result"
                => future[c].processed + future[c].failed = Len(args[c].records)

C1_Witness ==
    \E c \in Callers :
        /\ future[c].state = "result"
        /\ Len(args[c].records) = 3
        /\ Homogeneous(args[c].records)
        /\ args[c].chunk_size = 2
        /\ Len(bulk[c].sent) = 2
        /\ future[c].failed = 1

\* C2: within one batch at most one async_bulk call is in flight, it is the
\* last one issued (every earlier call is over), and the chunks sent so far
\* are the first chunks of the batch, in order
C2_Sequential ==
    \A c \in Callers :
        LET n == Len(args[c].records)
            cs == args[c].chunk_size
            sent == bulk[c].sent
        IN  /\ Cardinality(bulk[c].inflight) <= 1
            /\ bulk[c].inflight \subseteq {Len(sent)}
            /\ bulk[c].applied \subseteq 1..Len(sent)
            /\ \A j \in 1..Len(sent) :
                  sent[j] = SubSeq(args[c].records, (j - 1) * cs + 1, Min(j * cs, n))

C2_Witness ==
    \E c \in Callers :
        /\ Len(bulk[c].sent) = 2
        /\ bulk[c].inflight = {2}
        /\ 1 \in bulk[c].applied

\* C3: a batch whose records are not all of the first record's variant ends
\* with an input error and no async_bulk call is ever made for it
C3_MixedBatchRejected ==
    \A c \in Callers :
        (task[c].pc # "none" /\ ~Homogeneous(args[c].records))
        => /\ bulk[c].sent = <<>>
           /\ task[c].outcome # "returned"
           /\ task[c].outcome = "raised" => task[c].error = "InputValueError"

\* C4: once the async_bulk call of chunk k has raised, k is the last call
\* made, the call ends with the transport error and never with a
\* BulkResponse, the blocking caller gets that same error, and the chunks
\* before k are still applied
C4_TransportErrorAborts ==
    \A c \in Callers :
        bulk[c].raisedAt # 0
        => /\ Len(bulk[c].sent) = bulk[c].raisedAt
           /\ bulk[c].inflight = {}
           /\ task[c].outcome = "raised"
           /\ task[c].error = "TransportError"
           /\ future[c].state \in {"exception", "cancelled"}
           /\ future[c].state = "exception" => future[c].error = "TransportError"
           /\ caller[c].pc # "returned"
           /\ (caller[c].pc = "raised" /\ caller[c].error # "KeyboardInterrupt")
                => caller[c].error = "TransportError"
           /\ 1..(bulk[c].raisedAt - 1) \subseteq bulk[c].applied

C4_Witness ==
    \E c \in Callers :
        /\ bulk[c].raisedAt = 2
        /\ caller[c].pc = "raised"
        /\ caller[c].error = "TransportError"
        /\ 1 \in bulk[c].applied
        /\ 2 \notin bulk[c].applied

\* C5: a blocking log call that has returned did so after the future got
\* its result and returns that BulkResponse; one that has raised got the
\* future's exception or was interrupted while waiting; on each of these
\* exits future.cancel() has been called, so the future is no longer pending
C5_BlockingLog ==
    \A c \in Callers :
        /\ caller[c].pc = "waiting" => caller[c].cancels = 0
        /\ (caller[c].pc = "returned")
            => /\ ~args[c].background
               /\ future[c].state = "result"
               /\ caller[c].processed = future[c].processed
               /\ caller[c].failed = future[c].failed
               /\ caller[c].cancels = 1
        /\ (caller[c].pc = "raised")
            => /\ ~args[c].background
               /\ caller[c].cancels = 1
               /\ future[c].state \in {"result", "exception", "cancelled"}
               /\ caller[c].error # "KeyboardInterrupt"
                    => /\ future[c].state = "exception"
                       /\ caller[c].error = future[c].error

C5_Witness ==
    \E c \in Callers :
        /\ caller[c].pc = "raised"
        /\ caller[c].error = "TransportError"
        /\ caller[c].cancels = 1

C7_LoggedBeforeRaised ==
    \A c \in Callers :
        (future[c].state = "exception" \/ task[c].outcome = "raised") => errlog[c]

C7_Witness ==
    \E c \in Callers :
        /\ args[c].background
        /\ caller[c].pc = "holding"
        /\ future[c].state = "exception"
        /\ errlog[c]

\* C8: future.cancel() on a pending background future leaves the caller
\* running without an error, and neither the cancel nor anything after it
\* removes a chunk from the applied ones
C8_CancelNoRaiseNoRollback ==
    [][\A c \in Callers :
          /\ (caller[c].pc = "holding" /\ future[c].state = "pending"
                /\ future'[c].state = "cancelled")
              => /\ caller'[c].pc = "holding"
                 /\ caller'[c].error = ""
                 /\ bulk'[c].applied = bulk[c].applied
          /\ (future[c].state = "cancelled" /\ caller'[c].pc # "idle")
              => /\ bulk[c].applied \subseteq bulk'[c].applied
                 /\ caller'[c].error = caller[c].error]_vars

C8_Witness ==
    \E c \in Callers :
        /\ args[c].background
        /\ caller[c].pc = "holding"
        /\ caller[c].error = ""
        /\ future[c].state = "cancelled"
        /\ task[c].outcome = "cancelled"
        /\ bulk[c].applied = {1}
        /\ Len(bulk[c].sent) = 2

C10_EmptyBatch ==
    \A c \in Callers :
        (task[c].pc # "none" /\ Len(args[c].records) = 0)
        => /\ bulk[c].sent = <<>>
           /\ future[c].state # "result"
           /\ task[c].outcome # "returned"
           /\ task[c].pc = "finished"
                => (task[c].outcome = "raised" /\ task[c].error = "InputValueError")

C10_Witness ==
    \E c \in Callers :
        /\ Len(args[c].records) = 0
        /\ MatchesPattern(args[c].name)
        /\ args[c].chunk_size = 2
        /\ future[c].state = "exception"
        /\ future[c].error = "InputValueError"

\* a dataset name that is empty or has a character outside the pattern
BadName(name) ==
    \/ Len(name) = 0
    \/ \E j \in 1..Len(name) : name[j] \in {" ", "/"}

\* C11: a log call whose dataset name is empty or does not match the naming
\* pattern ends with an input error and makes no async_bulk call, whatever
\* its records and chunk size are
C11_BadNameRejected ==
    \A c \in Callers :
        (task[c].pc # "none" /\ BadName(args[c].name))
        => /\ bulk[c].sent = <<>>
           /\ task[c].outcome # "returned"
           /\ future[c].state # "result"
           /\ task[c].pc = "finished"
                => (task[c].outcome = "raised" /\ task[c].error = "InputValueError")

C11_Witness ==
    \E c \in Callers :
        /\ args[c].name = <<"/">>
        /\ Len(args[c].records) = 3
        /\ Homogeneous(args[c].records)
        /\ args[c].records[1].type \in RecordArgs
        /\ future[c].state = "exception"
        /\ future[c].error = "InputValueError"
        /\ bulk[c].sent = <<>>

\* C12: a log call with an empty or malformed dataset name fails in the
\* facade: nothing is handed to the agent or to the loop for it (no
\* coroutine is scheduled and no future exists)
C12_ValidatedBeforeSubmission ==
    \A c \in Callers :
        (caller[c].pc # "idle" /\ BadName(args[c].name))
        => /\ task[c].pc = "none"
           /\ future[c].state = "none"
           /\ caller[c].pc \notin {"holding", "waiting"}

\* C13: a log call made once the loop's thread has died fails in the caller
\* with an ExecutionContextUnavailable error (it does not queue the upload on
\* the dead loop and does not fail with anything else)
C13_DeadWorkerFailsSubmission ==
    [][\A c \in Callers :
          (worker # "running" /\ caller[c].pc = "idle" /\ caller'[c].pc # "idle")
          => /\ caller'[c].pc = "failed"
             /\ caller'[c].error = "ExecutionContextUnavailable"]_vars

\* C14: log with background=True gives the caller the pending future in the
\* same step that submits the coroutine, before any async_bulk call exists;
\* afterwards no step of the upload moves or fails the caller
C14_BackgroundReturnsAtOnce ==
    [][\A c \in Callers :
          /\ (caller[c].pc = "idle" /\ caller'[c].pc \notin {"idle", "failed"}
                /\ args'[c].background)
              => /\ caller'[c].pc = "holding"
                 /\ future'[c].state = "pending"
                 /\ task'[c].pc = "scheduled"
                 /\ bulk'[c].sent = <<>>
          /\ (caller[c].pc = "holding" /\ caller'[c].pc # "idle")
              => /\ caller'[c].pc = "holding"
                 /\ caller'[c].error = ""]_vars

C14_Witness ==
    \E c \in Callers :
        /\ args[c].background
        /\ caller[c].pc = "holding"
        /\ caller[c].cancels = 0
        /\ future[c].state = "result"
        /\ bulk[c].applied = {1, 2}

\* C15: a call with a valid name whose first record is of none of the three
\* accepted types ends with an InputValueError whose message carries that
\* type and the accepted types, and makes no async_bulk call
C15_UnknownTypeRejected ==
    \A c \in Callers :
        (/\ task[c].pc # "none"
         /\ ~BadName(args[c].name)
         /\ Len(args[c].records) > 0
         /\ args[c].records[1].type \notin
              {TextClassificationRecord, TokenClassificationRecord, Text2TextRecord})
        => /\ bulk[c].sent = <<>>
           /\ task[c].outcome # "returned"
           /\ future[c].state # "result"
           /\ task[c].pc = "finished"
                => /\ task[c].outcome = "raised"
                   /\ task[c].error = "InputValueError"
                   /\ task[c].detail.type = args[c].records[1].type
                   /\ task[c].detail.accepted =
                        {TextClassificationRecord, TokenClassificationRecord,
                         Text2TextRecord}

C15_Witness ==
    \E c \in Callers :
        /\ Len(args[c].records) = 2
        /\ args[c].records[1].type = OtherRecord
        /\ args[c].records[2].type = TextClassificationRecord
        /\ ~BadName(args[c].name)
        /\ caller[c].pc = "raised"
        /\ caller[c].error = "InputValueError"
        /\ task[c].detail.type = OtherRecord

\* C16 (as claimed): after set_workspace(w) has returned, get_workspace() is
\* w; and for w neither the username nor one of the user's workspaces it
\* has raised and the active workspace is what it was
C16_SetThenGet ==
    lastws # NoCall
    => /\ ~lastws.raised => get_workspace(user, headers) = lastws.workspace
       /\ (lastws.workspace # user.username
             /\ lastws.workspace \notin user.workspaces)
           => /\ lastws.raised
              /\ get_workspace(user, headers) = lastws.before

\* C16 (amended): after set_workspace(w) has returned, get_workspace() is w;
\* for a user that has a workspaces list, w neither the username nor in the
\* list raises and leaves the active workspace as it was; for a user whose
\* workspaces is None every workspace is accepted
C16_SetThenGetAmended ==
    lastws # NoCall
    => /\ ~lastws.raised => get_workspace(user, headers) = lastws.workspace
       /\ lastws.raised => get_workspace(user, headers) = lastws.before
       /\ (user.has_workspaces
             /\ lastws.workspace # user.username
             /\ lastws.workspace \notin user.workspaces)
           => lastws.raised
       /\ (~user.has_workspaces /\ lastws.workspace # NoWorkspace)
           => ~lastws.raised

C16_Witness ==
    /\ user.has_workspaces
    /\ user.username = "u"
    /\ lastws.workspace = "w2"
    /\ lastws.raised
    /\ lastws.before = "w1"
    /\ headers = "w1"

RECURSIVE Concat(_)
Concat(chunks) ==
    IF chunks = <<>> THEN <<>> ELSE Head(chunks) \o Concat(Tail(chunks))

\* C17: for a chunk size C >= 1 the k-th async_bulk call of a batch carries
\* the records at positions (k-1)*C+1 .. min(k*C, N) of the batch, in that
\* order: every chunk has between 1 and C records, every chunk but the last
\* has C, and when log_async returns the chunks sent, put end to end, are
\* the batch
C17_PositionalChunks ==
    \A c \in Callers :
        LET n == Len(args[c].records)
            cs == args[c].chunk_size
            sent == bulk[c].sent
        IN  cs >= 1
            => /\ \A k \in 1..Len(sent) :
                    /\ Len(sent[k]) >= 1
                    /\ Len(sent[k]) <= cs
                    /\ k < CeilDiv(n, cs) => Len(sent[k]) = cs
                    /\ \A j \in 1..Len(sent[k]) :
                          /\ (k - 1) * cs + j <= n
                          /\ sent[k][j] = args[c].records[(k - 1) * cs + j]
                          /\ sent[k][j].id = (k - 1) * cs + j
               /\ task[c].outcome = "returned" => Concat(sent) = args[c].records

C17_Witness ==
    \E c \in Callers :
        /\ Len(args[c].records) = 5
        /\ args[c].chunk_size = 2
        /\ task[c].outcome = "returned"
        /\ Len(bulk[c].sent) = 3
        /\ Len(bulk[c].sent[1]) = 2
        /\ Len(bulk[c].sent[2]) = 2
        /\ Len(bulk[c].sent[3]) = 1

RECURSIVE SumProcessed(_)
SumProcessed(responses) ==
    IF responses = <<>> THEN 0
    ELSE Head(responses).processed + SumProcessed(Tail(responses))

RECURSIVE SumFailed(_)
SumFailed(responses) ==
    IF responses = <<>> THEN 0
    ELSE Head(responses).failed + SumFailed(Tail(responses))

\* C18: with several batches submitted at once their async_bulk calls may
\* interleave, but each batch has at most one call in flight (its latest),
\* the totals a batch has counted when it awaits a call or returns are the
\* sums over the responses to its own calls only, and the BulkResponse it
\* resolves with reports those sums, one response for each of its chunks
C18_OwnChunksOnly ==
    \A c \in Callers :
        /\ Cardinality(bulk[c].inflight) <= 1
        /\ bulk[c].inflight \subseteq {Len(bulk[c].sent)}
        /\ Len(bulk[c].responses) <= Len(bulk[c].sent)
        /\ (task[c].pc = "awaiting" \/ task[c].outcome = "returned")
            => /\ task[c].processed = SumProcessed(bulk[c].responses)
               /\ task[c].failed = SumFailed(bulk[c].responses)
        /\ future[c].state = "result"
            => /\ future[c].processed = SumProcessed(bulk[c].responses)
               /\ future[c].failed = SumFailed(bulk[c].responses)
               /\ Len(bulk[c].responses) = Len(bulk[c].sent)

C18_Witness ==
    /\ bulk[1].inflight = {2}
    /\ bulk[2].inflight = {2}
    /\ task[1].processed = 1
    /\ task[2].failed = 1

\* C19: future.cancel() on a future that already holds a result or an
\* exception (the `finally` of the blocking log, or the holder of a
\* background future) changes nothing: the future keeps the BulkResponse or
\* the error it was resolved with, the task is not asked to cancel, no
\* async_bulk call is added, aborted or undone, and a blocking log that
\* returns hands back the totals of that BulkResponse
C19_CancelAfterCompletion ==
    [][\A c \in Callers :
          (/\ future[c].state \in {"result", "exception"}
           /\ caller'[c].cancels = caller[c].cancels + 1)
          => /\ future'[c] = future[c]
             /\ task'[c] = task[c]
             /\ bulk'[c] = bulk[c]
             /\ caller'[c].pc = "returned"
                  => /\ future[c].state = "result"
                     /\ caller'[c].processed = future[c].processed
                     /\ caller'[c].failed = future[c].failed
             /\ (caller'[c].pc = "raised" /\ caller'[c].error # "KeyboardInterrupt")
                  => /\ future[c].state = "exception"
                     /\ caller'[c].error = future[c].error]_vars

C19_Witness ==
    \E c \in Callers :
        /\ ~args[c].background
        /\ caller[c].pc = "raised"
        /\ caller[c].cancels = 1
        /\ caller[c].error = "TransportError"
        /\ future[c].state = "exception"
        /\ future[c].error = "TransportError"
        /\ ~task[c].cancel
        /\ bulk[c].raisedAt = 2
        /\ bulk[c].inflight = {}

\* C20: for the same records, dataset name and chunk size, and the same
\* outcome of the k-th async_bulk call, the blocking log and an awaited
\* log_async issue the same chunks in the same order (at any moment the
\* calls of one are a prefix of the calls of the other), and once both are
\* over they have made the same calls, got the same responses and ended the
\* same way: both with a BulkResponse of the same totals, or both with the
\* same error and message
C20_LogEquivLogAsync ==
    (/\ args[1] = args[2]
     /\ caller[1].pc # "idle"
     /\ caller[2].pc # "idle")
    => /\ \A k \in 1..Min(Len(bulk[1].sent), Len(bulk[2].sent)) :
              bulk[1].sent[k] = bulk[2].sent[k]
       /\ (caller[1].pc \in {"returned", "raised"}
             /\ caller[2].pc \in {"async_returned", "async_raised"})
           => /\ bulk[1].sent = bulk[2].sent
              /\ bulk[1].responses = bulk[2].responses
              /\ bulk[1].raisedAt = bulk[2].raisedAt
              /\ (caller[1].pc = "returned") = (caller[2].pc = "async_returned")
              /\ caller[1].processed = caller[2].processed
              /\ caller[1].failed = caller[2].failed
              /\ caller[1].error = caller[2].error
              /\ task[1].detail = task[2].detail

C20_Witness ==
    /\ args[1] = args[2]
    /\ Len(args[1].records) = 3
    /\ args[1].chunk_size = 1
    /\ caller[1].pc = "raised"
    /\ caller[2].pc = "async_raised"
    /\ caller[1].error = "TransportError"
    /\ caller[2].error = "TransportError"
    /\ bulk[1].raisedAt = 3
    /\ bulk[2].raisedAt = 3
    /\ bulk[1].responses = <<[processed |-> 1, failed |-> 0],
                             [processed |-> 0, failed |-> 1]>>

\* C21: while the worker loop runs and every async_bulk call comes to an
\* end, a future that is pending is eventually done (it holds the
\* BulkResponse, the failure, or was cancelled by its holder), and a caller
\* blocked in the blocking log eventually returns or raises
C21_Liveness ==
    \A c \in Callers :
        /\ (future[c].state = "pending")
             ~> (future[c].state \in {"result", "exception", "cancelled"})
        /\ (caller[c].pc = "waiting") ~> (caller[c].pc \in {"returned", "raised"})

C21_Witness ==
    /\ ~args[1].background
    /\ ~args[2].background
    /\ caller[1].pc = "returned"
    /\ caller[1].processed = 2
    /\ Len(bulk[1].sent) = 2
    /\ caller[2].pc = "raised"
    /\ caller[2].error = "TransportError"
    /\ bulk[2].raisedAt = 2

\* C22: whatever the chunk size (zero and negative included), a log_async
\* that returns a BulkResponse for a non-empty batch of one accepted type
\* and a well-formed name has made at least one async_bulk call and the
\* chunks it sent, put end to end, are the whole batch
C22_EveryRecordSent ==
    \A c \in Callers :
        (/\ task[c].outcome = "returned"
         /\ Len(args[c].records) > 0
         /\ Homogeneous(args[c].records)
         /\ InputError(args[c]) = "")
        => /\ Len(bulk[c].sent) >= 1
           /\ Concat(bulk[c].sent) = args[c].records

\* C23: the default client is created once: at most one thread's
\* active_api() ever builds an Api, every active_api() returns an Api, and
\* once __ACTIVE_API__ is set it changes only when init() builds its
\* replacement, so that calls with no init() in between return the same Api
C23_Singleton ==
    /\ [](/\ Cardinality({t \in Callers : thread[t].made # 0}) <= 1
          /\ \A t \in Callers : thread[t].pc = "done" => thread[t].got # 0)
    /\ [][(active # 0 /\ active' # active)
            => (Len(apis') = Len(apis) + 1 /\ active' = Len(apis'))]_vars

====
